---- MODULE Spec2Model ----
(***************************************************************************)
(* Model of the armlet toggle script (src/unnamed/part_000, lines          *)
(* 1182-1228): a file-scope flag armletActive, a menu slider holding the   *)
(* HP threshold, the functions armletOn / armletOff and the PostDataUpdate *)
(* handler that calls them; and of the example script (src/index.ts): its  *)
(* cast keybind, its Draw handler and its GameEnded handler.  The SDK is   *)
(* the environment: it supplies the delta, the humanizer switch, the local *)
(* hero, its HP, inventory and spells, accepts or rejects the prepared     *)
(* order, lets the user move the menu controls and press the keybind, and  *)
(* dispatches PostDataUpdate, Draw and GameEnded.                          *)
(***************************************************************************)
EXTENDS Integers, Sequences, FiniteSets, TLC

VARIABLES
    armletActive,    \* let armletActive (line 1182)
    armletHpSlider,  \* armletHpSlider.Value, the menu slider (line 1184)
    hero,            \* LocalPlayer?.Hero as seen by the last tick: "hero" or "undefined"
    heroHp,          \* const heroHp of the last tick that had a hero (line 1219)
    threshold,       \* const threshold of the last tick that had a hero (line 1221)
    hasArmlet,       \* whether FindItemByName("item_armlet") was defined in that tick
    orders,          \* log of the PrepareOrder calls, each tagged with the function that made it
    realItemOn,      \* the item's real toggle state inside the game
    lastEvent,       \* the event dispatched last
    lastAction,      \* what the last event's handling issued: "None", "Activate", "Deactivate"
    lastAccepted,    \* whether the game accepted the last prepared order
    activeBefore,    \* armletActive as it was when the last event was dispatched
    delta,           \* the delta the last PostDataUpdate was dispatched with
    disableHumanizer,\* ExecuteOrder.DisableHumanizer at the last tick
    log,             \* per tick <<HP, item held, action>>, kept by the scenario runs only
    drawState,       \* ExampleScript.drawState.value (src/index.ts line 25)
    borderWidth,     \* ExampleScript.borderWidth.value (line 29)
    showText,        \* ExampleScript.showText.value (line 32)
    rendered,        \* the RendererSDK calls made by ExampleScript in the last event, in order
    exEvent,         \* what happened last to ExampleScript: an event, a key or a menu change
    drawHero,        \* LocalPlayer?.Hero when the last Draw was dispatched
    drawHumanizerOff,\* ExecuteOrder.DisableHumanizer when the last Draw was dispatched
    castKeyIsPressed,\* ExampleScript.castKey.isPressed (line 21)
    keyBefore,       \* castKey.isPressed as it was when the last event was dispatched
    casts,           \* the cast orders issued by ExampleScript in the last event
    pressHero,       \* LocalPlayer?.Hero at the last key press: "undefined", "naga_siren", "other"
    pressHasMirror,  \* whether that hero's Spells held a naga_siren_mirror_image
    pressCanCast     \* what that ability's CanBeCasted() returned

armletVars == <<armletActive, armletHpSlider, hero, heroHp, threshold, hasArmlet,
                orders, realItemOn, lastEvent, lastAction, lastAccepted,
                activeBefore, delta, disableHumanizer>>

exampleVars == <<drawState, borderWidth, showText, rendered, exEvent,
                 drawHero, drawHumanizerOff, castKeyIsPressed, keyBefore,
                 casts, pressHero, pressHasMirror, pressCanCast>>

vars == <<armletVars, log, exampleVars>>

----------------------------------------------------------------------------
(* Numbers.  HP is a JavaScript number: a finite value, NaN or +-Infinity. *)

Num(n) == [kind |-> "finite", val |-> n]
NaN == [kind |-> "nan", val |-> 0]
PosInf == [kind |-> "inf", val |-> 1]
NegInf == [kind |-> "inf", val |-> -1]

IsFinite(x) == x.kind = "finite"

\* variant: a comparison with NaN taken as true
LessEq_NaNTrue(a, b) ==
    IF a.kind = "nan" \/ b.kind = "nan" THEN TRUE
    ELSE IF a.kind = "inf" THEN (a.val = -1 \/ (b.kind = "inf" /\ b.val = 1))
    ELSE IF b.kind = "inf" THEN b.val = 1
    ELSE a.val <= b.val

\* a <= b as JavaScript evaluates it: false as soon as one side is NaN
LessEq(a, b) ==
    IF a.kind = "nan" \/ b.kind = "nan" THEN FALSE
    ELSE IF a.kind = "inf" THEN (a.val = -1 \/ (b.kind = "inf" /\ b.val = 1))
    ELSE IF b.kind = "inf" THEN b.val = 1
    ELSE a.val <= b.val

\* a > b as JavaScript evaluates it: false as soon as one side is NaN
Greater(a, b) ==
    IF a.kind = "nan" \/ b.kind = "nan" THEN FALSE
    ELSE IF a.kind = "inf" THEN (a.val = 1 /\ ~(b.kind = "inf" /\ b.val = 1))
    ELSE IF b.kind = "inf" THEN b.val = -1
    ELSE a.val > b.val

----------------------------------------------------------------------------
(* Bounds and program constants *)

MaxOrders == 4

SliderDefault == 500
SliderMin == 50
SliderMax == 1500

SliderValues == {SliderMin, SliderDefault, SliderMax}

HpValues == {Num(0), Num(499), Num(500), Num(501), Num(600), NaN, PosInf, NegInf}

\* PostDataUpdate(delta): 0 when no game time has passed since the last tick
DeltaValues == {0, 1}

\* AddSlider("Border Width", 2, 0, 10)
BorderWidthDefault == 2
BorderWidthMin == 0
BorderWidthMax == 10
BorderWidthValues == {BorderWidthMin, 1, BorderWidthDefault, BorderWidthMax}

\* LocalPlayer?.Hero as the keybind callback can find it
PressHeroes == {"undefined", "naga_siren", "other"}

----------------------------------------------------------------------------
(* The script *)

\* the state after the script is loaded, with the slider at value v
InitWith(v) ==
    /\ armletActive = FALSE
    /\ armletHpSlider = v
    /\ hero = "undefined"
    /\ heroHp = Num(0)
    /\ threshold = v
    /\ hasArmlet = FALSE
    /\ orders = <<>>
    /\ realItemOn = FALSE
    /\ lastEvent = "none"
    /\ lastAction = "None"
    /\ lastAccepted = FALSE
    /\ activeBefore = FALSE
    /\ delta = 1
    /\ disableHumanizer = FALSE
    /\ log = <<>>
    /\ drawState = TRUE
    /\ borderWidth = BorderWidthDefault
    /\ showText = TRUE
    /\ rendered = <<>>
    /\ exEvent = "none"
    /\ drawHero = "undefined"
    /\ drawHumanizerOff = FALSE
    /\ castKeyIsPressed = FALSE
    /\ keyBefore = FALSE
    /\ casts = <<>>
    /\ pressHero = "undefined"
    /\ pressHasMirror = FALSE
    /\ pressCanCast = FALSE

Init == InitWith(SliderDefault)

\* the handler returns, or falls through, without an order
NoOrder ==
    /\ lastAction' = "None"
    /\ UNCHANGED <<armletActive, orders, realItemOn, lastAccepted>>

\* variant: an order that sets the item on from armletOn and off from armletOff
PrepareOrder_SetState(from, accepted) ==
    /\ orders' = Append(orders, from)
    /\ realItemOn' = IF accepted THEN (from = "armletOn") ELSE realItemOn
    /\ lastAccepted' = accepted

\* ExecuteOrder.PrepareOrder({CAST_NO_TARGET, armletItem, hero}): the same
\* order from both functions; the game toggles the item when it accepts it
PrepareOrder(from, accepted) ==
    /\ orders' = Append(orders, from)
    /\ realItemOn' = IF accepted THEN ~realItemOn ELSE realItemOn
    /\ lastAccepted' = accepted

\* variant: armletOn without the assignment armletActive = true
armletOn_KeepFlag(h, item, accepted) ==
    IF h = "undefined" THEN NoOrder
    ELSE IF ~item THEN NoOrder
    ELSE IF ~armletActive
         THEN /\ PrepareOrder("armletOn", accepted)
              /\ armletActive' = armletActive
              /\ lastAction' = "Activate"
         ELSE NoOrder

\* variant: armletOn setting the flag only when the order is accepted
armletOn_Rollback(h, item, accepted) ==
    IF h = "undefined" THEN NoOrder
    ELSE IF ~item THEN NoOrder
    ELSE IF ~armletActive
         THEN /\ PrepareOrder("armletOn", accepted)
              /\ armletActive' = accepted
              /\ lastAction' = "Activate"
         ELSE NoOrder

\* variant: armletOn without the check that item_armlet was found
armletOn_NoItemCheck(h, item, accepted) ==
    IF h = "undefined" THEN NoOrder
    ELSE IF ~armletActive
         THEN /\ PrepareOrder("armletOn", accepted)
              /\ armletActive' = TRUE
              /\ lastAction' = "Activate"
         ELSE NoOrder

armletOn(h, item, accepted) ==
    IF h = "undefined" THEN NoOrder
    ELSE IF ~item THEN NoOrder
    ELSE IF ~armletActive
         THEN /\ PrepareOrder("armletOn", accepted)
              /\ armletActive' = TRUE
              /\ lastAction' = "Activate"
         ELSE NoOrder

\* variant: armletOff without the assignment armletActive = false
armletOff_KeepFlag(h, item, accepted) ==
    IF h = "undefined" THEN NoOrder
    ELSE IF ~item THEN NoOrder
    ELSE IF armletActive
         THEN /\ PrepareOrder("armletOff", accepted)
              /\ armletActive' = armletActive
              /\ lastAction' = "Deactivate"
         ELSE NoOrder

armletOff(h, item, accepted) ==
    IF h = "undefined" THEN NoOrder
    ELSE IF ~item THEN NoOrder
    ELSE IF armletActive
         THEN /\ PrepareOrder("armletOff", accepted)
              /\ armletActive' = FALSE
              /\ lastAction' = "Deactivate"
         ELSE NoOrder

\* variant: heroHp < threshold in the first branch
Evaluate_Strict(hp, thr, active) ==
    IF LessEq(hp, thr) /\ hp # thr /\ ~active THEN "armletOn"
    ELSE IF Greater(hp, thr) /\ active THEN "armletOff"
    ELSE "none"

\* variant: !armletActive in the second branch as well
Evaluate_WrongFlag(hp, thr, active) ==
    IF LessEq(hp, thr) /\ ~active THEN "armletOn"
    ELSE IF Greater(hp, thr) /\ ~active THEN "armletOff"
    ELSE "none"

\* variant: the second branch without its HP comparison
Evaluate_PlainElse(hp, thr, active) ==
    IF LessEq(hp, thr) /\ ~active THEN "armletOn"
    ELSE IF active THEN "armletOff"
    ELSE "none"

\* the two-branch comparison of the handler (lines 1223-1227)
Evaluate(hp, thr, active) ==
    IF LessEq(hp, thr) /\ ~active THEN "armletOn"
    ELSE IF Greater(hp, thr) /\ active THEN "armletOff"
    ELSE "none"

\* variant: the threshold bound once, when the script is loaded
ReadThreshold_Cached == SliderDefault

\* const threshold = armletHpSlider.Value (line 1221)
ReadThreshold == armletHpSlider

\* variant: the second branch as an if of its own that tests the flag only
OnPostDataUpdate_TwoIfs(h, hp, item, accepted) ==
    IF h = "undefined"
    THEN /\ NoOrder
         /\ UNCHANGED <<heroHp, threshold, hasArmlet>>
    ELSE /\ heroHp' = hp
         /\ threshold' = ReadThreshold
         /\ hasArmlet' = item
         /\ IF Evaluate(hp, Num(ReadThreshold), armletActive) = "armletOn" /\ item
            THEN /\ orders' = orders \o <<"armletOn", "armletOff">>
                 /\ realItemOn' = realItemOn
                 /\ lastAccepted' = accepted
                 /\ armletActive' = FALSE
                 /\ lastAction' = "Deactivate"
            ELSE IF armletActive
                 THEN armletOff(h, item, accepted)
                 ELSE NoOrder

\* the body of the PostDataUpdate handler (lines 1217-1228)
OnPostDataUpdate(h, hp, item, accepted) ==
    IF h = "undefined"
    THEN /\ NoOrder
         /\ UNCHANGED <<heroHp, threshold, hasArmlet>>
    ELSE /\ heroHp' = hp
         /\ threshold' = ReadThreshold
         /\ hasArmlet' = item
         /\ CASE Evaluate(hp, Num(ReadThreshold), armletActive) = "armletOn"
                   -> armletOn(h, item, accepted)
              [] Evaluate(hp, Num(ReadThreshold), armletActive) = "armletOff"
                   -> armletOff(h, item, accepted)
              [] OTHER -> NoOrder

\* EventsSDK.on("PostDataUpdate", ...): one tick.  The SDK supplies the
\* delta, the humanizer switch, the hero, its HP and inventory, and its
\* answer to an order; HP and inventory exist only when there is a hero,
\* the answer only when the handler calls armletOn or armletOff.
PostDataUpdate ==
    \E dt \in DeltaValues, dh \in BOOLEAN, h \in {"hero", "undefined"} :
      \E hp \in (IF h = "hero" THEN HpValues ELSE {heroHp}),
         item \in (IF h = "hero" THEN BOOLEAN ELSE {hasArmlet}) :
       \E accepted \in (IF h = "hero" /\ Evaluate(hp, Num(ReadThreshold), armletActive) # "none"
                        THEN BOOLEAN ELSE {lastAccepted}) :
        /\ Len(orders) < MaxOrders
        /\ lastEvent' = "PostDataUpdate"
        /\ activeBefore' = armletActive
        /\ delta' = dt
        /\ disableHumanizer' = dh
        /\ hero' = h
        /\ UNCHANGED armletHpSlider
        /\ OnPostDataUpdate(h, hp, item, accepted)

\* the user moves the "Armlet HP Threshold" slider
SliderChanged ==
    \E v \in SliderValues :
        /\ v # armletHpSlider
        /\ armletHpSlider' = v
        /\ lastEvent' = "SliderChanged"
        /\ activeBefore' = armletActive
        /\ NoOrder
        /\ UNCHANGED <<hero, heroHp, threshold, hasArmlet, delta, disableHumanizer, log>>
        /\ UNCHANGED exampleVars

\* variant: a GameEnded handler that clears the flag
GameEnded_Reset ==
    /\ lastEvent' = "GameEnded"
    /\ activeBefore' = armletActive
    /\ armletActive' = FALSE
    /\ lastAction' = "None"
    /\ UNCHANGED <<orders, realItemOn, lastAccepted>>
    /\ UNCHANGED <<armletHpSlider, hero, heroHp, threshold, hasArmlet>>
    /\ UNCHANGED <<delta, disableHumanizer, log>>
    /\ UNCHANGED exampleVars

\* the match ends: the script subscribes no handler to GameEnded
GameEnded ==
    /\ lastEvent' = "GameEnded"
    /\ activeBefore' = armletActive
    /\ NoOrder
    /\ UNCHANGED <<armletHpSlider, hero, heroHp, threshold, hasArmlet>>
    /\ UNCHANGED <<delta, disableHumanizer, log>>
    /\ UNCHANGED exampleVars

\* a tick of the running script
Tick == PostDataUpdate /\ UNCHANGED <<log, exampleVars>>

Next == Tick \/ SliderChanged \/ GameEnded

Spec == Init /\ [][Next]_vars

\* the SDK dispatches PostDataUpdate on every frame: ticks keep coming
\* (match ends in between, the slider left alone)
NextFair == Tick \/ GameEnded

SpecFair == Init /\ [][NextFair]_vars /\ WF_vars(Tick)

----------------------------------------------------------------------------
(* Scenario runs: the handler driven tick after tick with a fixed threshold,
   every tick logged.  The threshold 0 of the second example lies below the
   slider's minimum; it is fed to the handler as a plain input. *)

MaxLog == 4

ScenarioThresholds == {SliderDefault, 0}

ScenarioHp == {Num(0), Num(499), Num(500), Num(501), Num(600)}

InitScenario == \E v \in ScenarioThresholds : InitWith(v)

ScenarioTick ==
    /\ Len(log) < MaxLog
    /\ PostDataUpdate
    /\ hero' = "hero"
    /\ heroHp' \in ScenarioHp
    /\ delta' = 1 /\ ~disableHumanizer'
    /\ log' = Append(log, [hp |-> heroHp', item |-> hasArmlet', action |-> lastAction'])
    /\ UNCHANGED exampleVars

SpecScenario == InitScenario /\ [][ScenarioTick]_vars

----------------------------------------------------------------------------
(* The example script (src/index.ts) *)

\* the key state and the press inputs, which only the keybind touches
keyVars == <<castKeyIsPressed, pressHero, pressHasMirror, pressCanCast>>

\* the menu controls of the drawing section
menuVars == <<drawState, borderWidth, showText>>

\* variant: the State toggle is not looked at
DrawCalls_NoStateCheck(state, width, text) ==
    <<"FilledRect">>
    \o (IF width > 0 THEN <<"OutlinedRect">> ELSE <<>>)
    \o (IF text THEN <<"TextByFlags">> ELSE <<>>)

\* variant: the border is drawn at any width
DrawCalls_BorderAlways(state, width, text) ==
    IF ~state THEN <<>>
    ELSE <<"FilledRect">>
         \o (IF width >= 0 THEN <<"OutlinedRect">> ELSE <<>>)
         \o (IF text THEN <<"TextByFlags">> ELSE <<>>)

\* the RendererSDK calls of one ExampleScript.Draw (lines 54-92): none when
\* the State toggle is off; otherwise FilledRect, then OutlinedRect when the
\* border width is positive, then TextByFlags when Show Info Text is on
DrawCalls(state, width, text) ==
    IF ~state THEN <<>>
    ELSE <<"FilledRect">>
         \o (IF width > 0 THEN <<"OutlinedRect">> ELSE <<>>)
         \o (IF text THEN <<"TextByFlags">> ELSE <<>>)

\* the Draw event.  The handler reads neither the local hero nor the
\* humanizer switch.
Draw ==
    \E h \in {"hero", "undefined"}, dh \in BOOLEAN :
        /\ exEvent' = "Draw"
        /\ drawHero' = h
        /\ drawHumanizerOff' = dh
        /\ rendered' = DrawCalls(drawState, borderWidth, showText)
        /\ casts' = <<>>
        /\ keyBefore' = castKeyIsPressed
        /\ UNCHANGED <<menuVars, keyVars>>
        /\ UNCHANGED <<armletVars, log>>

\* variant: CanBeCasted() is not asked
CastFirstSpell_NoCanCast(h, hasMirror, canCast) ==
    IF h = "undefined" \/ h # "naga_siren" THEN <<>>
    ELSE IF ~hasMirror THEN <<>>
    ELSE <<"CastNoTarget">>

\* ExampleScript.CastFirstSpell (lines 41-51): the orders it issues.  It
\* returns when there is no hero or the hero is no Naga Siren, and when no
\* Mirror Image is among the spells or it cannot be cast; else one
\* hero.CastNoTarget(ability, false, true).
CastFirstSpell(h, hasMirror, canCast) ==
    IF h = "undefined" \/ h # "naga_siren" THEN <<>>
    ELSE IF ~hasMirror \/ ~canCast THEN <<>>
    ELSE <<"CastNoTarget">>

\* the user presses the cast key: the keybind is pressed and runs the
\* callback registered in the constructor (line 35)
KeyPressed ==
    \E h \in PressHeroes :
      \E hasMirror \in (IF h = "undefined" THEN {FALSE} ELSE BOOLEAN) :
        \E canCast \in (IF hasMirror THEN BOOLEAN ELSE {FALSE}) :
            /\ exEvent' = "KeyPressed"
            /\ keyBefore' = castKeyIsPressed
            /\ castKeyIsPressed' = TRUE
            /\ pressHero' = h
            /\ pressHasMirror' = hasMirror
            /\ pressCanCast' = canCast
            /\ casts' = CastFirstSpell(h, hasMirror, canCast)
            /\ rendered' = <<>>
            /\ UNCHANGED <<menuVars, drawHero, drawHumanizerOff>>
            /\ UNCHANGED <<armletVars, log>>

\* the user lets the key go: no callback is registered for it
KeyReleased ==
    /\ castKeyIsPressed
    /\ exEvent' = "KeyReleased"
    /\ keyBefore' = castKeyIsPressed
    /\ castKeyIsPressed' = FALSE
    /\ casts' = <<>>
    /\ rendered' = <<>>
    /\ UNCHANGED <<menuVars, drawHero, drawHumanizerOff, pressHero, pressHasMirror, pressCanCast>>
    /\ UNCHANGED <<armletVars, log>>

\* variant: a handler that leaves the keybind alone
ExampleGameEnded_KeepKey ==
    /\ exEvent' = "GameEnded"
    /\ keyBefore' = castKeyIsPressed
    /\ casts' = <<>>
    /\ rendered' = <<>>
    /\ UNCHANGED <<menuVars, keyVars, drawHero, drawHumanizerOff>>
    /\ UNCHANGED <<armletVars, log>>

\* ExampleScript.GameEnded (lines 94-96): this.castKey.isPressed = false
ExampleGameEnded ==
    /\ exEvent' = "GameEnded"
    /\ keyBefore' = castKeyIsPressed
    /\ castKeyIsPressed' = FALSE
    /\ casts' = <<>>
    /\ rendered' = <<>>
    /\ UNCHANGED <<menuVars, drawHero, drawHumanizerOff, pressHero, pressHasMirror, pressCanCast>>
    /\ UNCHANGED <<armletVars, log>>

\* the user changes a control of the drawing section; no handler runs
MenuChanged ==
    /\ \E s \in BOOLEAN, w \in BorderWidthValues, t \in BOOLEAN :
        /\ <<s, w, t>> # <<drawState, borderWidth, showText>>
        /\ \/ (w = borderWidth /\ t = showText)
           \/ (s = drawState /\ t = showText)
           \/ (s = drawState /\ w = borderWidth)
        /\ drawState' = s
        /\ borderWidth' = w
        /\ showText' = t
    /\ exEvent' = "MenuChanged"
    /\ keyBefore' = castKeyIsPressed
    /\ casts' = <<>>
    /\ rendered' = <<>>
    /\ UNCHANGED <<keyVars, drawHero, drawHumanizerOff>>
    /\ UNCHANGED <<armletVars, log>>

NextExample == KeyPressed \/ KeyReleased \/ Draw \/ ExampleGameEnded \/ MenuChanged

\* the example script on its own
SpecExample == Init /\ [][NextExample]_vars

\* both scripts running: ticks of the armlet script and frames of the example
SpecGuard == Init /\ [][Tick \/ Draw]_vars

----------------------------------------------------------------------------
(* Properties *)

\* the tick of the last event read a hero, i.e. an evaluation took place
Evaluated == lastEvent = "PostDataUpdate" /\ hero = "hero"

RECURSIVE Count(_, _)
Count(seq, from) ==
    IF seq = <<>> THEN 0
    ELSE (IF Head(seq) = from THEN 1 ELSE 0) + Count(Tail(seq), from)

\* C1: the orders issued by armletOn and armletOff strictly alternate,
\* starting with armletOn: no two Activates in a row, no two Deactivates in
\* a row.
C1_Alternate ==
    \A i \in 1..Len(orders) :
        orders[i] = IF i % 2 = 1 THEN "armletOn" ELSE "armletOff"

C1_Witness == Len(orders) >= 3 /\ lastAction = "Activate"

\* C2: the number of Activate results so far minus the number of Deactivate
\* results so far is 0 or 1.
C2_Balance ==
    Count(orders, "armletOn") - Count(orders, "armletOff") \in {0, 1}

C2_Witness ==
    /\ Count(orders, "armletOn") = 2
    /\ Count(orders, "armletOff") = 2

\* C3 as stated: every evaluation with HP <= threshold while inactive
\* issues the activate order and sets the flag.
C3_Original ==
    (Evaluated /\ LessEq(heroHp, Num(threshold)) /\ ~activeBefore)
        => (lastAction = "Activate" /\ armletActive)

\* C3 amended: every evaluation with HP <= threshold while inactive, in a
\* tick where the hero holds item_armlet, issues the activate order and sets
\* the flag.
C3_Activate ==
    (Evaluated /\ hasArmlet /\ LessEq(heroHp, Num(threshold)) /\ ~activeBefore)
        => (lastAction = "Activate" /\ armletActive
            /\ orders # <<>> /\ orders[Len(orders)] = "armletOn")

C3_Witness ==
    /\ Evaluated /\ hasArmlet /\ ~activeBefore
    /\ heroHp = Num(threshold)
    /\ lastAction = "Activate" /\ armletActive

\* C4 as stated: every evaluation with HP > threshold while active issues
\* the deactivate order and clears the flag.
C4_Original ==
    (Evaluated /\ Greater(heroHp, Num(threshold)) /\ activeBefore)
        => (lastAction = "Deactivate" /\ ~armletActive)

\* C4 amended: every evaluation with HP > threshold while active, in a tick
\* where the hero holds item_armlet, issues the deactivate order and clears
\* the flag.
C4_Deactivate ==
    (Evaluated /\ hasArmlet /\ Greater(heroHp, Num(threshold)) /\ activeBefore)
        => (lastAction = "Deactivate" /\ ~armletActive
            /\ orders # <<>> /\ orders[Len(orders)] = "armletOff")

C4_Witness ==
    /\ Evaluated /\ hasArmlet /\ activeBefore
    /\ heroHp = Num(threshold + 1)
    /\ lastAction = "Deactivate" /\ ~armletActive

\* C5: a tick that is neither (HP <= threshold and inactive) nor
\* (HP > threshold and active) issues no order and leaves the flag as it was.
C5_Otherwise ==
    (/\ lastEvent = "PostDataUpdate"
     /\ ~(hero = "hero" /\ LessEq(heroHp, Num(threshold)) /\ ~activeBefore)
     /\ ~(hero = "hero" /\ Greater(heroHp, Num(threshold)) /\ activeBefore))
        => (lastAction = "None" /\ armletActive = activeBefore)

C5_Witness ==
    /\ Evaluated /\ hasArmlet /\ activeBefore /\ armletActive
    /\ LessEq(heroHp, Num(threshold))
    /\ lastAction = "None"

\* C6: after a GameEnded event, and after a tick that finds the local hero
\* undefined, armletActive is false.
C6_ResetOnEnd ==
    (\/ lastEvent = "GameEnded"
     \/ (lastEvent = "PostDataUpdate" /\ hero = "undefined"))
        => ~armletActive

\* C7: a reset (GameEnded) leaves the state inactive and issues no order,
\* and the evaluation with HP > threshold that follows a reset performed
\* while active issues nothing.
C7_ResetThenNone ==
    [][/\ lastEvent' = "GameEnded" => (~armletActive' /\ lastAction' = "None")
       /\ (/\ lastEvent = "GameEnded" /\ activeBefore
           /\ lastEvent' = "PostDataUpdate" /\ hero' = "hero"
           /\ Greater(heroHp', Num(threshold')))
              => lastAction' = "None"]_vars

\* C8 as stated: an evaluation with a non-finite HP is rejected: it signals
\* InvalidInput, issues no order and leaves the flag unchanged.
C8_Original ==
    (Evaluated /\ ~IsFinite(heroHp))
        => (lastAction = "InvalidInput" /\ armletActive = activeBefore)

\* C8 amended: an evaluation with HP = NaN issues no order and leaves the
\* flag unchanged, and its result is None, not an error; an infinite HP is
\* compared like any number: +Infinity while active deactivates and
\* -Infinity while inactive activates when the item is held.
C8_NonFinite ==
    /\ (Evaluated /\ heroHp = NaN)
          => (lastAction = "None" /\ armletActive = activeBefore)
    /\ (Evaluated /\ hasArmlet /\ heroHp = PosInf /\ activeBefore)
          => (lastAction = "Deactivate" /\ ~armletActive)
    /\ (Evaluated /\ hasArmlet /\ heroHp = NegInf /\ ~activeBefore)
          => (lastAction = "Activate" /\ armletActive)

C8_Witness ==
    /\ Evaluated /\ hasArmlet /\ heroHp = NaN
    /\ activeBefore /\ armletActive /\ lastAction = "None"

C10_NoRollback ==
    (lastEvent = "PostDataUpdate" /\ lastAction # "None")
        => /\ armletActive = ~activeBefore
           /\ armletActive = (lastAction = "Activate")

C10_Witness ==
    /\ lastEvent = "PostDataUpdate" /\ lastAction = "Activate"
    /\ ~lastAccepted
    /\ armletActive /\ ~realItemOn

\* C11 as stated: at HP = threshold an inactive controller activates, and at
\* the smallest HP above the threshold an active controller deactivates.
C11_Original ==
    /\ (Evaluated /\ heroHp = Num(threshold) /\ ~activeBefore)
          => lastAction = "Activate"
    /\ (Evaluated /\ heroHp = Num(threshold + 1) /\ activeBefore)
          => lastAction = "Deactivate"

\* C11 amended: in a tick where the hero holds item_armlet, HP = threshold
\* with the flag false issues the activate order (the boundary belongs to the
\* activate side), and HP = threshold + 1 with the flag true issues the
\* deactivate order.
C11_Boundary ==
    /\ (Evaluated /\ hasArmlet /\ heroHp = Num(threshold) /\ ~activeBefore)
          => (lastAction = "Activate" /\ armletActive)
    /\ (Evaluated /\ hasArmlet /\ heroHp = Num(threshold + 1) /\ activeBefore)
          => (lastAction = "Deactivate" /\ ~armletActive)

C11_Witness ==
    /\ Evaluated /\ hasArmlet /\ ~activeBefore
    /\ heroHp = Num(threshold)
    /\ lastAction = "Activate"
    /\ Len(orders) >= 3
    /\ orders[Len(orders) - 1] = "armletOff"

\* a tick that follows a tick directly and reads the same HP and threshold
SameInputAgain ==
    /\ Evaluated
    /\ lastEvent' = "PostDataUpdate" /\ hero' = "hero"
    /\ heroHp' = heroHp /\ threshold' = threshold

\* C12 as stated: a second evaluation with the same HP and threshold right
\* after the first issues nothing and leaves the flag unchanged; and an
\* evaluation with HP below the threshold while active issues nothing.
C12_Original ==
    [][/\ SameInputAgain => (lastAction' = "None" /\ armletActive' = armletActive)
       /\ (lastEvent' = "PostDataUpdate" /\ hero' = "hero" /\ armletActive
           /\ LessEq(heroHp', Num(threshold')) /\ heroHp' # Num(threshold'))
              => lastAction' = "None"]_vars

\* C12 amended: a second evaluation with the same HP, the same threshold and
\* the same availability of item_armlet right after the first issues nothing
\* and leaves the flag unchanged; and every evaluation with HP strictly below
\* the threshold while the flag is true issues nothing.
C12_Idempotent ==
    [][/\ (SameInputAgain /\ hasArmlet' = hasArmlet)
              => (lastAction' = "None" /\ armletActive' = armletActive)
       /\ (lastEvent' = "PostDataUpdate" /\ hero' = "hero" /\ armletActive
           /\ LessEq(heroHp', Num(threshold')) /\ heroHp' # Num(threshold'))
              => (lastAction' = "None" /\ armletActive')]_vars

C12_Witness ==
    /\ Evaluated /\ hasArmlet /\ activeBefore /\ armletActive
    /\ heroHp = Num(threshold - 1)
    /\ lastAction = "None"
    /\ orders = <<"armletOn">>

\* C18: an order is issued only in a tick whose hero is defined and holds
\* item_armlet; a tick without hero or without the item issues nothing and
\* keeps the flag, so a flag left true when the item is lost stays true.
C18_OrderNeedsItem ==
    /\ lastAction # "None" => (Evaluated /\ hasArmlet)
    /\ (lastEvent = "PostDataUpdate" /\ (hero = "undefined" \/ ~hasArmlet))
          => (lastAction = "None" /\ armletActive = activeBefore)

C18_Witness ==
    /\ Evaluated /\ ~hasArmlet
    /\ activeBefore /\ armletActive
    /\ Greater(heroHp, Num(threshold))
    /\ lastAction = "None"

NextTickSameHp ==
    /\ hero = "hero"
    /\ lastEvent' = "PostDataUpdate" /\ hero' = "hero"
    /\ heroHp' = heroHp

\* C17 as stated: the threshold is read afresh on every tick; with HP
\* unchanged, a threshold lowered below the HP while active yields Deactivate
\* on the next tick, and one raised to at least the HP while inactive yields
\* Activate on the next tick.
C17_Original ==
    [][/\ (lastEvent' = "PostDataUpdate" /\ hero' = "hero")
              => threshold' = armletHpSlider
       /\ (NextTickSameHp /\ armletActive /\ LessEq(heroHp, Num(threshold))
           /\ Greater(heroHp, Num(armletHpSlider)))
              => lastAction' = "Deactivate"
       /\ (NextTickSameHp /\ ~armletActive /\ Greater(heroHp, Num(threshold))
           /\ LessEq(heroHp, Num(armletHpSlider)))
              => lastAction' = "Activate"]_vars

\* C17 amended: the threshold is read afresh on every tick; with HP
\* unchanged and item_armlet held in the next tick, a threshold lowered below
\* the HP while active yields Deactivate on that tick, and one raised to at
\* least the HP while inactive yields Activate on that tick.
C17_FreshThreshold ==
    [][/\ (lastEvent' = "PostDataUpdate" /\ hero' = "hero")
              => threshold' = armletHpSlider
       /\ (NextTickSameHp /\ hasArmlet' /\ armletActive
           /\ LessEq(heroHp, Num(threshold))
           /\ Greater(heroHp, Num(armletHpSlider)))
              => (lastAction' = "Deactivate" /\ ~armletActive')
       /\ (NextTickSameHp /\ hasArmlet' /\ ~armletActive
           /\ Greater(heroHp, Num(threshold))
           /\ LessEq(heroHp, Num(armletHpSlider)))
              => (lastAction' = "Activate" /\ armletActive')]_vars

C17_Witness ==
    /\ Evaluated /\ hasArmlet
    /\ threshold = SliderMin /\ heroHp = Num(SliderDefault)
    /\ activeBefore /\ lastAction = "Deactivate"
    /\ orders = <<"armletOn", "armletOff">>

\* C20: a tick issues at most one order and flips the flag at most once:
\* every step appends nothing or exactly one order, and the flag changes
\* exactly in the steps that append one.
C20_AtMostOneOrder ==
    [][/\ \/ orders' = orders
          \/ /\ Len(orders') = Len(orders) + 1
             /\ SubSeq(orders', 1, Len(orders)) = orders
       /\ (armletActive' # armletActive) <=> (orders' # orders)]_vars

C20_Witness ==
    /\ Evaluated /\ hasArmlet /\ lastAccepted
    /\ lastAction = "Deactivate"
    /\ Len(orders) = 2 /\ ~realItemOn /\ ~armletActive

\* the HPs, the actions and the item flags of the first n logged ticks
LogHp(n) == [i \in 1..n |-> log[i].hp]
LogAction(n) == [i \in 1..n |-> log[i].action]
LogItemHeld(n) == \A i \in 1..n : log[i].item

\* C14 as stated: from the initial state with threshold 500, the HP sequence
\* 600, 500, 499, 501 produces None, Activate, None, Deactivate.
C14_Original ==
    (/\ armletHpSlider = 500 /\ Len(log) >= 4
     /\ LogHp(4) = <<Num(600), Num(500), Num(499), Num(501)>>)
        => LogAction(4) = <<"None", "Activate", "None", "Deactivate">>

\* C14 amended: from the initial state with threshold 500 and item_armlet
\* held in every tick, the HP sequence 600, 500, 499, 501 produces None,
\* Activate, None, Deactivate.
C14_Scenario ==
    (/\ armletHpSlider = 500 /\ Len(log) >= 4
     /\ LogItemHeld(4)
     /\ LogHp(4) = <<Num(600), Num(500), Num(499), Num(501)>>)
        => LogAction(4) = <<"None", "Activate", "None", "Deactivate">>

C14_Witness ==
    /\ armletHpSlider = 500 /\ Len(log) = 4
    /\ LogItemHeld(4)
    /\ LogHp(4) = <<Num(600), Num(500), Num(499), Num(501)>>
    /\ orders = <<"armletOn", "armletOff">>

C16_Guarded ==
    /\ (lastEvent = "PostDataUpdate"
        /\ (delta = 0 \/ hero = "undefined" \/ disableHumanizer))
          => (lastAction = "None" /\ armletActive = activeBefore)
    /\ (exEvent = "Draw" /\ (drawHero = "undefined" \/ drawHumanizerOff))
          => rendered = <<>>

\* the step issues an order that the game accepts
AcceptedOrder == orders' # orders /\ lastAccepted'

\* C22: both functions issue the same toggle order, so every accepted order
\* preserves whether armletActive differs from the real item state: once
\* they differ no accepted order makes them agree again, and an accepted
\* order from armletOff then turns the real item on.
C22_DivergencePreserved ==
    [][/\ AcceptedOrder
            => ((armletActive' # realItemOn') <=> (armletActive # realItemOn))
       /\ (AcceptedOrder /\ armletActive # realItemOn
           /\ orders'[Len(orders')] = "armletOff")
            => (realItemOn' /\ ~armletActive')]_vars

C22_Witness ==
    /\ Evaluated /\ lastAction = "Deactivate" /\ lastAccepted
    /\ realItemOn /\ ~armletActive
    /\ orders = <<"armletOn", "armletOff">>

\* every tick from here on reads a hero that holds item_armlet, with the HP
\* at or below the threshold / above the threshold
TickLow ==
    lastEvent' = "PostDataUpdate"
        => (hero' = "hero" /\ hasArmlet' /\ LessEq(heroHp', Num(threshold')))

TickHigh ==
    lastEvent' = "PostDataUpdate"
        => (hero' = "hero" /\ hasArmlet' /\ Greater(heroHp', Num(threshold')))

C23_CastOnlyWhenCastable ==
    exEvent = "KeyPressed" =>
        /\ Len(casts) <= 1
        /\ \A i \in 1..Len(casts) : casts[i] = "CastNoTarget"
        /\ casts # <<>> => (/\ pressHero # "undefined"
                            /\ pressHero = "naga_siren"
                            /\ pressHasMirror
                            /\ pressCanCast)

C23_Witness ==
    /\ exEvent = "KeyPressed" /\ castKeyIsPressed
    /\ pressHero = "naga_siren" /\ pressHasMirror /\ pressCanCast
    /\ casts = <<"CastNoTarget">>

\* C24: with the State toggle off a Draw event makes no renderer call,
\* whatever the border width and the Show Info Text toggle are.
C24_NoDrawWhenOff ==
    (exEvent = "Draw" /\ ~drawState) => Len(rendered) = 0

C24_Witness ==
    /\ exEvent = "Draw" /\ ~drawState
    /\ borderWidth > 0 /\ showText
    /\ rendered = <<>>

\* the place of a renderer call in the order the claim gives
CallRank(c) == IF c = "FilledRect" THEN 1 ELSE IF c = "OutlinedRect" THEN 2 ELSE 3

C26_GameEndedResets ==
    exEvent = "GameEnded" =>
        (~castKeyIsPressed /\ casts = <<>> /\ rendered = <<>>)

C26_Witness ==
    exEvent = "GameEnded" /\ keyBefore /\ ~castKeyIsPressed

====
